---- MODULE Spec2Model ----
(***************************************************************************)
(* Model of the beatmaps-service adapters:                                 *)
(*   - the beatmap mirror backends (MinoMirror, RippleMirror) and the      *)
(*     ordered-fallback resolver that drives them;                         *)
(*   - the osu! API v2 client (get_beatmap, get_beatmapset,                *)
(*     search_beatmapsets), its response hook and the legacy ranked-status *)
(*     mapping.                                                            *)
(* Python's Optional values are modelled as sequences: <<>> is None and    *)
(* <<v>> is the value v.                                                   *)
(***************************************************************************)
EXTENDS Integers, Sequences, FiniteSets, TLC

VARIABLES
    mirrors,        \* the resolver's ordered list of mirror backend names
    rpc,            \* resolver call: "idle", "running" or "done"
    rid,            \* beatmapset id of the resolver call
    ridx,           \* index of the next mirror the resolver tries
    rresult,        \* value the resolver call returned (<<>> is null)
    rraised,        \* TRUE when an exception left the resolver call
    invocations,    \* backend invocations of the resolver call, in time order
    op,             \* API client call: the operation ("none" before any call)
    apc,            \* API client call: "idle", "awaiting", "returned", "raised"
    args,           \* the caller's arguments of the API call
    request,        \* the request handed to the HTTP client
    upstream,       \* the outcome of the HTTP call that the function resumed with
    payload,        \* osu_api_response_data
    result,         \* value returned by the API call (<<>> is None)
    exc,            \* exception leaving the API call (<<>> is none)
    errorLogs,      \* logging.exception entries of the API call
    responses,      \* responses the response hook has seen during the API call
    rateLimitLog,   \* entries written by log_osu_api_response during the call
    prevSearch      \* last decoded search response with its query (<<>> is none)

mirrorVars == <<mirrors, rpc, rid, ridx, rresult, rraised, invocations>>
apiVars == <<op, apc, args, request, upstream, payload, result, exc, errorLogs,
             responses, rateLimitLog, prevSearch>>
vars == <<mirrors, rpc, rid, ridx, rresult, rraised, invocations,
          op, apc, args, request, upstream, payload, result, exc, errorLogs,
          responses, rateLimitLog, prevSearch>>

None == <<>>
Some(v) == <<v>>

(***************************************************************************)
(* Bounds of the model.                                                    *)
(***************************************************************************)
MaxBeatmapsetId == 2
MaxBeatmapId == 2
MaxPage == 2
MaxAuthSteps == 1

(***************************************************************************)
(* The HTTP capability: what a GET can come back with.                     *)
(***************************************************************************)
Statuses == {200, 302, 401, 404, 500}

\* httpx.Response.is_success, the test behind raise_for_status()
IsSuccess(status) == status >= 200 /\ status <= 299

ArchiveBodies == {"OSZ2DATA", "OSZ2OTHER"}

\* What a mirror host answers to one GET: a response, or no response at all
\* (connection failure, timeout), in which case the client raises.
MirrorAnswers ==
    {[kind |-> "response", status |-> 200, body |-> b] : b \in ArchiveBodies}
    \cup {[kind |-> "response", status |-> s, body |-> "ERRORPAGE"] :
              s \in Statuses \ {200}}
    \cup {[kind |-> "transport_error", status |-> 0, body |-> ""]}

MirrorNames == {"mino", "ripple"}

BaseUrl(name) ==
    IF name = "mino" THEN "https://catboy.best" ELSE "https://storage.ripple.moe"

\* f"{self.base_url}/d/{beatmapset_id}"
ArchiveUrl(name, beatmapset_id) == <<BaseUrl(name), "d", beatmapset_id>>

(***************************************************************************)
(* MinoMirror.fetch_beatmap_zip_data: every exception of the try block,    *)
(* the one of raise_for_status() on a 404 included, takes the except       *)
(* branch, which logs a warning and returns None.                          *)
(***************************************************************************)
\* A variant of MinoMirror that never returns the body it read.
MinoDropsBody(beatmapset_id, answer) ==
    LET req == [method |-> "GET", url |-> ArchiveUrl("mino", beatmapset_id)]
        info == [level |-> "INFO", source |-> "mino"]
        warn == [level |-> "WARNING", source |-> "mino"]
    IN  IF answer.kind = "response" /\ IsSuccess(answer.status)
        THEN [requests |-> <<req>>, ret |-> None, raised |-> None,
              logs |-> <<info>>]
        ELSE [requests |-> <<req>>, ret |-> None, raised |-> None,
              logs |-> <<info, warn>>]

\* A variant of MinoMirror without raise_for_status().
MinoNoStatusCheck(beatmapset_id, answer) ==
    LET req == [method |-> "GET", url |-> ArchiveUrl("mino", beatmapset_id)]
        info == [level |-> "INFO", source |-> "mino"]
        warn == [level |-> "WARNING", source |-> "mino"]
    IN  IF answer.kind = "response"
        THEN [requests |-> <<req>>, ret |-> Some(answer.body), raised |-> None,
              logs |-> <<info>>]
        ELSE [requests |-> <<req>>, ret |-> None, raised |-> None,
              logs |-> <<info, warn>>]

MinoMirror_fetch_beatmap_zip_data(beatmapset_id, answer) ==
    LET req == [method |-> "GET", url |-> ArchiveUrl("mino", beatmapset_id)]
        info == [level |-> "INFO", source |-> "mino"]
        warn == [level |-> "WARNING", source |-> "mino"]
    IN  IF answer.kind = "response" /\ IsSuccess(answer.status)
        THEN [requests |-> <<req>>, ret |-> Some(answer.body), raised |-> None,
              logs |-> <<info>>]
        ELSE [requests |-> <<req>>, ret |-> None, raised |-> None,
              logs |-> <<info, warn>>]

(***************************************************************************)
(* RippleMirror.fetch_beatmap_zip_data: a 404 returns None from inside the *)
(* try block; any exception logs a warning and raises MirrorRequestError.  *)
(***************************************************************************)
\* A variant of RippleMirror without the 404 branch.
RippleNo404Check(beatmapset_id, answer) ==
    LET req == [method |-> "GET", url |-> ArchiveUrl("ripple", beatmapset_id)]
        info == [level |-> "INFO", source |-> "ripple"]
        warn == [level |-> "WARNING", source |-> "ripple"]
    IN  IF answer.kind = "response" /\ IsSuccess(answer.status)
        THEN [requests |-> <<req>>, ret |-> Some(answer.body), raised |-> None,
              logs |-> <<info>>]
        ELSE [requests |-> <<req>>, ret |-> None,
              raised |-> Some("MirrorRequestError"), logs |-> <<info, warn>>]

RippleMirror_fetch_beatmap_zip_data(beatmapset_id, answer) ==
    LET req == [method |-> "GET", url |-> ArchiveUrl("ripple", beatmapset_id)]
        info == [level |-> "INFO", source |-> "ripple"]
        warn == [level |-> "WARNING", source |-> "ripple"]
    IN  IF answer.kind = "response" /\ answer.status = 404
        THEN [requests |-> <<req>>, ret |-> None, raised |-> None,
              logs |-> <<info>>]
        ELSE IF answer.kind = "response" /\ IsSuccess(answer.status)
        THEN [requests |-> <<req>>, ret |-> Some(answer.body), raised |-> None,
              logs |-> <<info>>]
        ELSE [requests |-> <<req>>, ret |-> None,
              raised |-> Some("MirrorRequestError"), logs |-> <<info, warn>>]

\* Dispatch on the backend variant.
fetch_beatmap_zip_data(name, beatmapset_id, answer) ==
    IF name = "mino"
    THEN MinoMirror_fetch_beatmap_zip_data(beatmapset_id, answer)
    ELSE RippleMirror_fetch_beatmap_zip_data(beatmapset_id, answer)

(***************************************************************************)
(* The mirror resolver: tries the backends in list order, one attempt      *)
(* each, returns the first non-null bytes, and null when the list is       *)
(* exhausted.  A backend that raises counts as "move to the next mirror".  *)
(***************************************************************************)
\* Non-empty orderings of distinct backends.
MirrorOrderings ==
    {<<n>> : n \in MirrorNames}
    \cup {o \in MirrorNames \X MirrorNames : o[1] # o[2]}

\* TRUE when the resolver returns this backend outcome instead of moving on.
ResolverAccepts(out) == out.raised = None /\ out.ret # None

ResolverStart(beatmapset_id) ==
    /\ rpc = "idle"
    /\ rpc' = "running"
    /\ rid' = beatmapset_id
    /\ ridx' = 1
    /\ rresult' = None
    /\ rraised' = FALSE
    /\ invocations' = <<>>
    /\ UNCHANGED <<mirrors>>
    /\ UNCHANGED apiVars

ResolverTry(answer) ==
    /\ rpc = "running"
    /\ ridx <= Len(mirrors)
    /\ LET out == fetch_beatmap_zip_data(mirrors[ridx], rid, answer)
           inv == [index |-> ridx, name |-> mirrors[ridx], id |-> rid,
                   answer |-> answer, out |-> out]
       IN  /\ invocations' = Append(invocations, inv)
           /\ IF ResolverAccepts(out)
              THEN /\ rresult' = out.ret
                   /\ rpc' = "done"
                   /\ ridx' = ridx
              ELSE /\ rresult' = None
                   /\ ridx' = ridx + 1
                   /\ rpc' = IF ridx + 1 > Len(mirrors) THEN "done" ELSE "running"
    /\ rraised' = FALSE
    /\ UNCHANGED <<mirrors, rid>>
    /\ UNCHANGED apiVars

\* The caller takes the result; the resolver keeps nothing of the call.
ResolverReturn ==
    /\ rpc = "done"
    /\ rpc' = "idle"
    /\ UNCHANGED <<mirrors, rid, ridx, rresult, rraised, invocations>>
    /\ UNCHANGED apiVars

(***************************************************************************)
(* The osu! API v2 client.                                                 *)
(***************************************************************************)
OSU_API_V2_TOKEN_ENDPOINT ==
    [base |-> "https://osu.ppy.sh/", path |-> "oauth/token", id |-> None]

\* httpx joins the client's base_url with the relative path of the request.
ApiUrl(resource, ident) ==
    [base |-> "https://osu.ppy.sh/api/v2/", path |-> resource, id |-> ident]

Response(verb, target, status) ==
    [request |-> [method |-> verb, url |-> target], status_code |-> status]

(***************************************************************************)
(* log_osu_api_response, the client's response hook: the entries it writes *)
(* for one response.  The rate-limit headers and the reset time in the     *)
(* entry are left out; the entry is identified by its request URL.         *)
(***************************************************************************)
\* A variant of the hook that does not test for 401.
LogHookWithout401Check(response) ==
    IF response.request.url = OSU_API_V2_TOKEN_ENDPOINT
    THEN <<>>
    ELSE <<[request_url |-> response.request.url]>>

log_osu_api_response(response) ==
    IF response.request.url = OSU_API_V2_TOKEN_ENDPOINT
       \/ response.status_code = 401
    THEN <<>>
    ELSE <<[request_url |-> response.request.url]>>

(***************************************************************************)
(* Response bodies.  A body is text that parses as JSON or does not; a     *)
(* JSON value is null (None) or an object.                                 *)
(***************************************************************************)
CursorStrings == {"eyJpZCI6MX0", "eyJpZCI6Mn0"}

JsonObject(k, ident, cursor) == [kind |-> k, id |-> ident, cursor_string |-> cursor]

GarbageBody == [syntax |-> "garbage", value |-> None]
NullBody == [syntax |-> "json", value |-> None]
ObjectBody(obj) == [syntax |-> "json", value |-> Some(obj)]
ErrorBody == ObjectBody(JsonObject("error", 0, ""))

\* Bodies of a 200 answer to a request for the resource `id`.
OkBodies(id) ==
    {GarbageBody, NullBody}
    \cup {ObjectBody(JsonObject(k, id, "")) : k \in {"beatmap", "beatmapset"}}
    \cup {ObjectBody(JsonObject("search", 0, c)) : c \in CursorStrings}

\* What the awaited client.get() ends with: a response, or an exception
\* raised by the client (no connection, the 5 s timeout).
ApiOutcomes(id) ==
    {[kind |-> "response", status |-> 200, body |-> b] : b \in OkBodies(id)}
    \cup {[kind |-> "response", status |-> s, body |-> ErrorBody] :
              s \in Statuses \ {200}}
    \cup {[kind |-> "transport_error", status |-> 0, body |-> GarbageBody]}

\* BeatmapExtended(**data) and BeatmapsetExtended(**data): the object decodes
\* when it carries the model's required fields.
BeatmapExtended(data) == [type |-> "BeatmapExtended", id |-> data.id]
BeatmapsetExtended(data) == [type |-> "BeatmapsetExtended", id |-> data.id]
BeatmapsetSearchResponse(data) ==
    [type |-> "BeatmapsetSearchResponse", cursor_string |-> data.cursor_string]

Returned(value, data) ==
    [pc |-> "returned", result |-> value, exc |-> None, payload |-> data,
     errorLogs |-> <<>>]

\* A variant of the except branch that logs without the payload.
FailedWithoutPayload(type, message, data) ==
    [pc |-> "raised", result |-> None, exc |-> Some([type |-> type]),
     payload |-> data,
     errorLogs |-> <<[message |-> message, osu_api_response_data |-> None]>>]

\* The except branch: one logging.exception entry with the payload, then a
\* bare raise of the exception that was caught.
Failed(type, message, data) ==
    [pc |-> "raised", result |-> None, exc |-> Some([type |-> type]),
     payload |-> data,
     errorLogs |-> <<[message |-> message, osu_api_response_data |-> data]>>]

\* The part shared by the three functions after the status checks:
\* response.json(), the assert, and the decoding into `model`.
DecodeBody(outcome, model, message) ==
    IF outcome.body.syntax # "json"
    THEN Failed("JSONDecodeError", message, None)
    ELSE IF outcome.body.value = None
    THEN Failed("AssertionError", message, None)
    ELSE LET data == outcome.body.value[1]
         IN  IF model = "BeatmapExtended" /\ data.kind = "beatmap"
             THEN Returned(Some(BeatmapExtended(data)), Some(data))
             ELSE IF model = "BeatmapsetExtended" /\ data.kind = "beatmapset"
             THEN Returned(Some(BeatmapsetExtended(data)), Some(data))
             ELSE IF model = "BeatmapsetSearchResponse" /\ data.kind = "search"
             THEN Returned(Some(BeatmapsetSearchResponse(data)), Some(data))
             ELSE Failed("ValidationError", message, Some(data))

\* A variant of get_beatmap without the 404 branch.
get_beatmap_No404Check(outcome) ==
    LET message == "Failed to fetch beatmap from osu! API"
    IN  IF outcome.kind # "response"
        THEN Failed("TransportError", message, None)
        ELSE IF ~IsSuccess(outcome.status)
        THEN Failed("HTTPStatusError", message, None)
        ELSE DecodeBody(outcome, "BeatmapExtended", message)

get_beatmap(outcome) ==
    LET message == "Failed to fetch beatmap from osu! API"
    IN  IF outcome.kind # "response"
        THEN Failed("TransportError", message, None)
        ELSE IF outcome.status = 404
        THEN Returned(None, None)
        ELSE IF ~IsSuccess(outcome.status)
        THEN Failed("HTTPStatusError", message, None)
        ELSE DecodeBody(outcome, "BeatmapExtended", message)

get_beatmapset(outcome) ==
    LET message == "Failed to fetch beatmapset from osu! API"
    IN  IF outcome.kind # "response"
        THEN Failed("TransportError", message, None)
        ELSE IF outcome.status = 404
        THEN Returned(None, None)
        ELSE IF ~IsSuccess(outcome.status)
        THEN Failed("HTTPStatusError", message, None)
        ELSE DecodeBody(outcome, "BeatmapsetExtended", message)

\* A variant of search_beatmapsets with the 404 branch of get_beatmap.
search_beatmapsets_With404Check(outcome) ==
    LET message == "Failed to fetch beatmapsets from osu! API"
    IN  IF outcome.kind # "response"
        THEN Failed("TransportError", message, None)
        ELSE IF outcome.status = 404
        THEN Returned(None, None)
        ELSE IF ~IsSuccess(outcome.status)
        THEN Failed("HTTPStatusError", message, None)
        ELSE DecodeBody(outcome, "BeatmapsetSearchResponse", message)

search_beatmapsets(outcome) ==
    LET message == "Failed to fetch beatmapsets from osu! API"
    IN  IF outcome.kind # "response"
        THEN Failed("TransportError", message, None)
        ELSE IF ~IsSuccess(outcome.status)
        THEN Failed("HTTPStatusError", message, None)
        ELSE DecodeBody(outcome, "BeatmapsetSearchResponse", message)

(***************************************************************************)
(* SearchLegacyRankedStatus and from_osu_api_status.                       *)
(***************************************************************************)
SearchLegacyRankedStatus ==
    [RANKED |-> 0, FAVOURITES |-> 2, QUALIFIED |-> 3, PENDING |-> 4,
     GRAVEYARD |-> 5, MINE |-> 6, ANY |-> 7, LOVED |-> 8]

\* The members of RankedStatus that the mapping names.
RankedStatus ==
    {"NOT_SUBMITTED", "PENDING", "UPDATE_AVAILABLE", "RANKED", "APPROVED",
     "QUALIFIED", "LOVED"}

\* A variant of the mapping that takes the legacy values to be contiguous.
from_osu_api_status_Contiguous(osu_api_status) ==
    LET table == [NOT_SUBMITTED |-> None,
                  PENDING |-> Some(SearchLegacyRankedStatus.PENDING),
                  UPDATE_AVAILABLE |-> None,
                  RANKED |-> Some(SearchLegacyRankedStatus.RANKED),
                  APPROVED |-> Some(SearchLegacyRankedStatus.RANKED + 1),
                  QUALIFIED |-> Some(SearchLegacyRankedStatus.QUALIFIED),
                  LOVED |-> Some(SearchLegacyRankedStatus.LOVED)]
    IN  IF osu_api_status \in DOMAIN table THEN table[osu_api_status] ELSE None

\* dict.get: the entry of the key, None for a key the dict does not hold.
from_osu_api_status(osu_api_status) ==
    LET table == [NOT_SUBMITTED |-> None,
                  PENDING |-> Some(SearchLegacyRankedStatus.PENDING),
                  UPDATE_AVAILABLE |-> None,
                  RANKED |-> Some(SearchLegacyRankedStatus.RANKED),
                  APPROVED |-> Some(SearchLegacyRankedStatus.RANKED),
                  QUALIFIED |-> Some(SearchLegacyRankedStatus.QUALIFIED),
                  LOVED |-> Some(SearchLegacyRankedStatus.LOVED)]
    IN  IF osu_api_status \in DOMAIN table THEN table[osu_api_status] ELSE None

\* A variant of the params dict that drops the cursor string.
SearchParamsWithoutCursor(a) ==
    [q |-> a.query, m |-> a.mode, r |-> a.ranked_status, page |-> a.page,
     limit |-> a.page_size, cursor_string |-> None]

\* The params dict search_beatmapsets hands to the client.
SearchParams(a) ==
    [q |-> a.query, m |-> a.mode, r |-> a.ranked_status, page |-> a.page,
     limit |-> a.page_size, cursor_string |-> a.cursor_string]

(***************************************************************************)
(* The callers of the client.                                              *)
(***************************************************************************)
Queries == {"camellia", "xi"}
GameMode == {0, 3}
PageSizes == {50}

\* A caller of search_beatmapsets: it maps the internal status to the legacy
\* one, and continues a search only with the cursor string of the last
\* response of the same query.
SearchCallerArgs ==
    {[query |-> q, osu_api_status |-> s, ranked_status |-> from_osu_api_status(s),
      mode |-> m, page |-> p, page_size |-> n, cursor_string |-> c] :
        q \in Queries, s \in RankedStatus, m \in GameMode, p \in 1..MaxPage,
        n \in PageSizes,
        c \in {None} \cup {Some(x) : x \in CursorStrings}}

CursorIsFromLastResponse(a) ==
    \/ a.cursor_string = None
    \/ /\ prevSearch # None
       /\ prevSearch[1].query = a.query
       /\ a.cursor_string = Some(prevSearch[1].cursor_string)

(***************************************************************************)
(* Actions of the API client.  A call runs up to its await, the HTTP      *)
(* client passes every response to the hook, and the call resumes with the *)
(* outcome of the GET.                                                     *)
(***************************************************************************)
BeginCall(name, a, req) ==
    /\ apc = "idle"
    /\ op' = name
    /\ apc' = "awaiting"
    /\ args' = Some(a)
    /\ request' = Some(req)
    /\ upstream' = None
    /\ payload' = None
    /\ result' = None
    /\ exc' = None
    /\ errorLogs' = <<>>
    /\ responses' = <<>>
    /\ rateLimitLog' = <<>>
    /\ UNCHANGED prevSearch
    /\ UNCHANGED mirrorVars

CallGetBeatmap(beatmap_id) ==
    BeginCall("get_beatmap", [id |-> beatmap_id],
              [method |-> "GET", url |-> ApiUrl("beatmaps", Some(beatmap_id)),
               params |-> None])

CallGetBeatmapset(beatmapset_id) ==
    BeginCall("get_beatmapset", [id |-> beatmapset_id],
              [method |-> "GET", url |-> ApiUrl("beatmapsets", Some(beatmapset_id)),
               params |-> None])

CallSearchBeatmapsets(a) ==
    /\ CursorIsFromLastResponse(a)
    /\ BeginCall("search_beatmapsets", a,
                 [method |-> "GET", url |-> ApiUrl("beatmapsets/search", None),
                  params |-> Some(SearchParams(a))])

\* Responses the credential provider consumes before the call resumes: the
\* token exchange itself, and a 401 of the API request that it retries.
AuthResponses ==
    {Response("POST", OSU_API_V2_TOKEN_ENDPOINT, s) : s \in {200, 401}}
    \cup {Response("GET", request[i].url, 401) : i \in DOMAIN request}

AuthStep(response) ==
    /\ apc = "awaiting"
    /\ Len(responses) < MaxAuthSteps
    /\ responses' = Append(responses, response)
    /\ rateLimitLog' = rateLimitLog \o log_osu_api_response(response)
    /\ UNCHANGED <<op, apc, args, request, upstream, payload, result, exc,
                   errorLogs, prevSearch>>
    /\ UNCHANGED mirrorVars

\* The hook sees the response of the GET before the caller of get() does.
Resume(outcome, final) ==
    /\ upstream' = Some(outcome)
    /\ apc' = final.pc
    /\ payload' = final.payload
    /\ result' = final.result
    /\ exc' = final.exc
    /\ errorLogs' = errorLogs \o final.errorLogs
    /\ IF outcome.kind = "response"
       THEN LET response == Response("GET", request[1].url, outcome.status)
            IN  /\ responses' = Append(responses, response)
                /\ rateLimitLog' = rateLimitLog \o log_osu_api_response(response)
       ELSE UNCHANGED <<responses, rateLimitLog>>
    /\ UNCHANGED <<op, args, request>>
    /\ UNCHANGED mirrorVars

ResumeGetBeatmap(outcome) ==
    /\ apc = "awaiting"
    /\ op = "get_beatmap"
    /\ Resume(outcome, get_beatmap(outcome))
    /\ UNCHANGED prevSearch

ResumeGetBeatmapset(outcome) ==
    /\ apc = "awaiting"
    /\ op = "get_beatmapset"
    /\ Resume(outcome, get_beatmapset(outcome))
    /\ UNCHANGED prevSearch

\* The caller keeps the decoded response to continue the search from it.
ResumeSearchBeatmapsets(outcome) ==
    /\ apc = "awaiting"
    /\ op = "search_beatmapsets"
    /\ LET final == search_beatmapsets(outcome)
       IN  /\ Resume(outcome, final)
           /\ prevSearch' =
                 IF final.pc = "returned" /\ final.result # None
                 THEN Some([query |-> args[1].query,
                            cursor_string |-> final.result[1].cursor_string])
                 ELSE prevSearch


MirrorInit ==
    /\ mirrors \in MirrorOrderings
    /\ rpc = "idle"
    /\ rid = 1
    /\ ridx = 1
    /\ rresult = None
    /\ rraised = FALSE
    /\ invocations = <<>>

ApiInit ==
    /\ op = "none"
    /\ apc = "idle"
    /\ args = None
    /\ request = None
    /\ upstream = None
    /\ payload = None
    /\ result = None
    /\ exc = None
    /\ errorLogs = <<>>
    /\ responses = <<>>
    /\ rateLimitLog = <<>>
    /\ prevSearch = None

Init == MirrorInit /\ ApiInit

\* The resolver and the API client share no state: each is checked under a
\* specification of its own.
NextMirrors ==
    \/ \E id \in 1..MaxBeatmapsetId : ResolverStart(id)
    \/ \E a \in MirrorAnswers : ResolverTry(a)
    \/ ResolverReturn

SpecMirrors == Init /\ [][NextMirrors]_vars

\* The caller has the result or the exception; nothing of the call is kept
\* but the search response a caller continues from.
ApiCallEnds ==
    /\ apc \in {"returned", "raised"}
    /\ op' = "none"
    /\ apc' = "idle"
    /\ args' = None
    /\ request' = None
    /\ upstream' = None
    /\ payload' = None
    /\ result' = None
    /\ exc' = None
    /\ errorLogs' = <<>>
    /\ responses' = <<>>
    /\ rateLimitLog' = <<>>
    /\ UNCHANGED prevSearch
    /\ UNCHANGED mirrorVars

\* The resource id of the request in flight (0 when it names none).
CallId ==
    IF request = None \/ request[1].url.id = None THEN 0 ELSE request[1].url.id[1]

NextApi ==
    \/ \E id \in 1..MaxBeatmapId : CallGetBeatmap(id)
    \/ \E id \in 1..MaxBeatmapId : CallGetBeatmapset(id)
    \/ \E a \in SearchCallerArgs : CallSearchBeatmapsets(a)
    \/ \E r \in AuthResponses : AuthStep(r)
    \/ \E o \in ApiOutcomes(CallId) : ResumeGetBeatmap(o)
    \/ \E o \in ApiOutcomes(CallId) : ResumeGetBeatmapset(o)
    \/ \E o \in ApiOutcomes(CallId) : ResumeSearchBeatmapsets(o)
    \/ ApiCallEnds

\* The API client on its own: the mirror list is fixed, the resolver idle.
InitApi == Init /\ mirrors = <<"mino", "ripple">>

SpecApi == InitApi /\ [][NextApi]_vars


(***************************************************************************)
(* Properties of the mirror backends and the resolver (SpecMirrors).       *)
(***************************************************************************)
Invoked == 1..Len(invocations)

AnswerIsSuccess(a) == a.kind = "response" /\ a.status \in 200..299

\* C1: one resolver call invokes the backends strictly in list order, each
\* with a single request; the call returns the bytes of the first backend
\* that returned non-null bytes and invokes no backend after it; with
\* mirrors [A, B], A answering 404 and B answering 200 with bytes, the call
\* returns B's bytes after exactly one call to A and one to B.
C1_OrderedShortCircuit ==
    /\ Len(invocations) <= Len(mirrors)
    /\ \A i \in Invoked :
          /\ invocations[i].index = i
          /\ invocations[i].name = mirrors[i]
          /\ invocations[i].id = rid
          /\ Len(invocations[i].out.requests) = 1
          /\ i < Len(invocations) => invocations[i].out.ret = None
    /\ rpc = "done" =>
          LET last == invocations[Len(invocations)]
          IN  /\ Len(invocations) >= 1
              /\ last.out.ret # None => rresult = last.out.ret
              /\ last.out.ret = None =>
                    rresult = None /\ Len(invocations) = Len(mirrors)
              /\ (Len(mirrors) = 2 /\ invocations[1].answer.kind = "response"
                    /\ invocations[1].answer.status = 404) =>
                    /\ Len(invocations) = 2
                    /\ AnswerIsSuccess(invocations[2].answer) =>
                          rresult = <<invocations[2].answer.body>>

C1_Witness ==
    /\ rpc = "done"
    /\ Len(mirrors) = 2
    /\ Len(invocations) = 2
    /\ invocations[1].answer.status = 404
    /\ invocations[2].answer.status = 200
    /\ rresult = <<"OSZ2DATA">>

\* C2: when the upstream of every configured mirror answers 404, another
\* non-2xx status or not at all, the resolver call has tried every mirror,
\* returns null and raises nothing.
C2_ExhaustionReturnsNull ==
    (rpc = "done" /\ \A i \in Invoked : ~AnswerIsSuccess(invocations[i].answer)) =>
        /\ rresult = None
        /\ rraised = FALSE
        /\ Len(invocations) = Len(mirrors)

C2_Witness ==
    /\ rpc = "done"
    /\ Len(invocations) = 2
    /\ rresult = None
    /\ \E i \in Invoked : invocations[i].out.raised = <<"MirrorRequestError">>
    /\ \E i \in Invoked :
          invocations[i].name = "mino" /\ invocations[i].answer.status = 500

\* C8: for every backend variant a 404 is returned as absence off the
\* failure path: None is returned, nothing is raised, no warning is logged,
\* and the outcome differs from the one of a failure of the same backend.
C8_NotFoundIsNotAFailure ==
    \A i \in Invoked :
        (invocations[i].answer.kind = "response"
            /\ invocations[i].answer.status = 404) =>
           /\ invocations[i].out.ret = None
           /\ invocations[i].out.raised = None
           /\ \A k \in 1..Len(invocations[i].out.logs) :
                 invocations[i].out.logs[k].level # "WARNING"
           /\ invocations[i].out #
                 fetch_beatmap_zip_data(
                     invocations[i].name, invocations[i].id,
                     [kind |-> "response", status |-> 500, body |-> "ERRORPAGE"])

\* C10: a backend call issues exactly one GET to {base_url}/d/{id}.  Mino
\* returns the bytes on 2xx and None otherwise and never raises; Ripple
\* returns the bytes on 2xx, None on 404 and raises MirrorRequestError on
\* everything else.
C10_BackendOutcomes ==
    \A i \in Invoked :
        LET inv == invocations[i]
            a == inv.answer
            base == IF inv.name = "mino" THEN "https://catboy.best"
                    ELSE "https://storage.ripple.moe"
        IN  /\ inv.out.requests = <<[method |-> "GET", url |-> <<base, "d", inv.id>>]>>
            /\ inv.name = "mino" =>
                  /\ inv.out.raised = None
                  /\ inv.out.ret = IF AnswerIsSuccess(a) THEN <<a.body>> ELSE None
            /\ inv.name = "ripple" =>
                  /\ AnswerIsSuccess(a) =>
                        inv.out.ret = <<a.body>> /\ inv.out.raised = None
                  /\ (a.kind = "response" /\ a.status = 404) =>
                        inv.out.ret = None /\ inv.out.raised = None
                  /\ (~AnswerIsSuccess(a) /\ ~(a.kind = "response" /\ a.status = 404)) =>
                        inv.out.ret = None /\ inv.out.raised = <<"MirrorRequestError">>

C10_Witness ==
    /\ Len(invocations) = 2
    /\ \E i \in Invoked :
          /\ invocations[i].name = "ripple"
          /\ invocations[i].answer.kind = "transport_error"
          /\ invocations[i].out.raised = <<"MirrorRequestError">>
    /\ \E i \in Invoked :
          /\ invocations[i].name = "mino"
          /\ invocations[i].answer.status = 200
          /\ invocations[i].out.ret = <<"OSZ2OTHER">>

(***************************************************************************)
(* Properties of the API client (SpecApi).                                 *)
(***************************************************************************)
CallEnded == apc \in {"returned", "raised"}

OutcomeIs2xx == upstream[1].kind = "response" /\ upstream[1].status \in 200..299
OutcomeIs404 == upstream[1].kind = "response" /\ upstream[1].status = 404

\* The kind of JSON object the operation's response model decodes.
WantedKind ==
    IF op = "get_beatmap" THEN "beatmap"
    ELSE IF op = "get_beatmapset" THEN "beatmapset" ELSE "search"

OutcomeDecodes ==
    /\ OutcomeIs2xx
    /\ upstream[1].body.syntax = "json"
    /\ upstream[1].body.value # None
    /\ upstream[1].body.value[1].kind = WantedKind

\* C3: get_beatmap and get_beatmapset return None exactly when the status
\* is 404, return a typed record for a 2xx answer with a decodable body, and
\* raise on every other outcome.
C3_NullExactlyOn404 ==
    (CallEnded /\ op \in {"get_beatmap", "get_beatmapset"}) =>
        /\ (apc = "returned" /\ result = None) <=> OutcomeIs404
        /\ OutcomeDecodes =>
              /\ apc = "returned"
              /\ result = <<[type |-> IF op = "get_beatmap" THEN "BeatmapExtended"
                                      ELSE "BeatmapsetExtended",
                             id |-> args[1].id]>>
        /\ (~OutcomeIs404 /\ ~OutcomeDecodes) =>
              apc = "raised" /\ exc # None /\ result = None

C3_Witness ==
    /\ op = "get_beatmapset"
    /\ apc = "returned"
    /\ result = None
    /\ upstream[1].status = 404

\* C4: search_beatmapsets returns a BeatmapsetSearchResponse or raises, and
\* never returns None; a 404 raises like any other non-2xx status.
C4_SearchNeverReturnsAbsence ==
    (CallEnded /\ op = "search_beatmapsets") =>
        /\ apc = "returned" =>
              /\ OutcomeDecodes
              /\ result # None
              /\ result[1].type = "BeatmapsetSearchResponse"
        /\ ~OutcomeDecodes => apc = "raised" /\ exc # None
        /\ (upstream[1].kind = "response" /\ ~OutcomeIs2xx) =>
              apc = "raised" /\ exc = <<[type |-> "HTTPStatusError"]>>

C4_Witness ==
    /\ op = "search_beatmapsets"
    /\ apc = "raised"
    /\ upstream[1].status = 404
    /\ exc = <<[type |-> "HTTPStatusError"]>>

\* C5: the request of a search carries the caller's arguments as q, m, r,
\* page and limit, and its cursor_string is the caller's; a search continued
\* from the last response of the same query sends the cursor string of that
\* response, which is the one of the response body, unchanged.
C5_CursorPassedThrough ==
    /\ (op = "search_beatmapsets" /\ apc # "idle") =>
          request[1].params =
              <<[q |-> args[1].query, m |-> args[1].mode,
                 r |-> args[1].ranked_status, page |-> args[1].page,
                 limit |-> args[1].page_size,
                 cursor_string |-> args[1].cursor_string]>>
    /\ (op = "search_beatmapsets" /\ apc = "awaiting"
          /\ args[1].cursor_string # None) =>
          /\ prevSearch # None
          /\ prevSearch[1].query = request[1].params[1].q
          /\ request[1].params[1].cursor_string = <<prevSearch[1].cursor_string>>
    /\ (op = "search_beatmapsets" /\ apc = "returned") =>
          prevSearch = <<[query |-> args[1].query,
                          cursor_string |-> upstream[1].body.value[1].cursor_string]>>

C5_Witness ==
    /\ op = "search_beatmapsets"
    /\ apc = "awaiting"
    /\ prevSearch # None
    /\ request[1].params[1].cursor_string = <<"eyJpZCI6Mn0">>
    /\ request[1].params[1].page = 2

LegacyValues == {0, 2, 3, 4, 5, 6, 7, 8}

C7_RateLimitLogExact ==
    LET counted == SelectSeq(responses,
                       LAMBDA r :
                           /\ ~(r.request.method = "POST"
                                  /\ r.request.url.path = "oauth/token")
                           /\ r.status_code # 401)
    IN  /\ Len(rateLimitLog) = Len(counted)
        /\ \A i \in 1..Len(counted) :
              rateLimitLog[i] = [request_url |-> counted[i].request.url]

C7_Witness ==
    /\ Len(responses) = 2
    /\ responses[1].request.method = "POST"
    /\ responses[1].status_code = 200
    /\ responses[2].status_code = 500
    /\ Len(rateLimitLog) = 1

\* The exception the try block raises for the outcome of the call.
ExpectedException ==
    IF upstream[1].kind # "response" THEN "TransportError"
    ELSE IF ~OutcomeIs2xx THEN "HTTPStatusError"
    ELSE IF upstream[1].body.syntax # "json" THEN "JSONDecodeError"
    ELSE IF upstream[1].body.value = None THEN "AssertionError"
    ELSE "ValidationError"

====
